---- MODULE Spec2Model ----
(***************************************************************************)
(* agent-workspace: the output validation engine (validateOutput) with the *)
(* readers it decodes files with, and the WorkspaceManager (create,        *)
(* cleanup, list, pruneStale) with the handles it returns.                 *)
(*                                                                         *)
(* A file's text is modelled as the sequence of its segments between       *)
(* newline characters (what raw.split('\n') yields): the text "1\n2\n" is  *)
(* <<"1", "2", "">>.  Segments are drawn from a small alphabet: a blank    *)
(* segment, two JSON texts, a text that is neither JSON nor YAML, and the  *)
(* frontmatter fence.                                                      *)
(*                                                                         *)
(* Thrown values are Error objects with a string message or primitive      *)
(* strings (the two arms of `err instanceof Error ? err.message :          *)
(* String(err)`).                                                          *)
(***************************************************************************)
EXTENDS Integers, Sequences, FiniteSets, TLC

(* ------------------------------ bounds --------------------------------- *)

\* longest OutputSpec.files handed to validateOutput in the batch runs
MaxSpecs == 2

\* most segments in a generated file text
MaxLines == 3

(* ------------------------------ values --------------------------------- *)

Undefined == "<undefined>"

OutputDir == "/ws/output"

Paths == {"result.json", "log.jsonl"}

Formats == {"json", "jsonl", "markdown", "raw"}

Blank == ""
Fence == "---"
Garbage == "{"

\* segments a generated file is made of
Segments == {Blank, "1", "2", Garbage}

\* texts with frontmatter fences: "---\n<yaml>\n---\n<body>"
FencedTexts == {<<Fence, y, Fence, b>> : y \in {"1", Garbage}, b \in {Blank, "1"}}

SeqsUpTo(S, n) == UNION {[1..k -> S] : k \in 1..n}

Texts == SeqsUpTo(Segments, MaxLines) \cup FencedTexts

Absent == [kind |-> "absent", raw |-> <<>>]
Directory == [kind |-> "dir", raw |-> <<>>]
RegularFile(raw) == [kind |-> "file", raw |-> raw]

FileStates == {Absent, Directory} \cup {RegularFile(t) : t \in Texts}

\* a thrown Error object / a thrown primitive string
ErrorObject(msg) == [isError |-> TRUE, message |-> msg, value |-> ""]
ThrownString(s) == [isError |-> FALSE, message |-> Undefined, value |-> s]

Returned(v) == [ok |-> TRUE, value |-> v, err |-> ErrorObject("")]
Thrown(e) == [ok |-> FALSE, value |-> Undefined, err |-> e]

\* String(x) of a primitive string
String(x) == x

(* ------------------------------- paths --------------------------------- *)

\* path.join(dir, filePath) for a filePath without '.' or '..' components
PathJoin(dir, filePath) == dir \o "/" \o filePath

(* ----------------------------- file system ----------------------------- *)

\* fs.access(fullPath): resolves when the entry exists, rejects otherwise
FsAccess(fsys, filePath) ==
    IF fsys[filePath].kind = "absent"
    THEN Thrown(ErrorObject("ENOENT: no such file or directory, access '"
                            \o PathJoin(OutputDir, filePath) \o "'"))
    ELSE Returned(Undefined)

\* a missing file read as an empty one
FsReadFileEmpty(fsys, filePath) ==
    CASE fsys[filePath].kind = "absent" -> Returned(<<Blank>>)
      [] fsys[filePath].kind = "dir" ->
            Thrown(ErrorObject("EISDIR: illegal operation on a directory, read"))
      [] OTHER -> Returned(fsys[filePath].raw)

\* fs.readFile(fullPath, 'utf-8')
FsReadFile(fsys, filePath) ==
    CASE fsys[filePath].kind = "absent" ->
            Thrown(ErrorObject("ENOENT: no such file or directory, open '"
                               \o PathJoin(OutputDir, filePath) \o "'"))
      [] fsys[filePath].kind = "dir" ->
            Thrown(ErrorObject("EISDIR: illegal operation on a directory, read"))
      [] OTHER -> Returned(fsys[filePath].raw)

(* ------------------------------- schemas ------------------------------- *)

\* decoded values
NumberValue(n) == [t |-> "number", n |-> n]
ArrayValue(items) == [t |-> "array", items |-> items]
StringValue(text) == [t |-> "string", text |-> text]
ObjectValue(keys) == [t |-> "object", keys |-> keys]
DocumentValue(fm, body) == [t |-> "document", frontmatter |-> fm, body |-> body]

\* Schema doubles: one that throws an Error for the number 2, one that
\* throws a primitive string for every value.
Schemas == {"notTwo", "rejectAll"}

\* schema.parse(data)
SchemaParse(schema, data) ==
    CASE schema = "notTwo" ->
            IF data.t = "number" /\ data.n = 2
            THEN Thrown(ErrorObject("must not be 2"))
            ELSE Returned(data)
      [] schema = "rejectAll" -> Thrown(ThrownString("rejected"))

(* ------------------------------- readers ------------------------------- *)

NonBlank(text) == SelectSeq(text, LAMBDA s : s # Blank)

\* JSON.parse(text): one JSON value surrounded by whitespace
JSONParse(text) ==
    LET nb == NonBlank(text) IN
    CASE Len(nb) = 0 ->
            Thrown(ErrorObject("Unexpected end of JSON input"))
      [] Len(nb) > 0 /\ nb[1] \notin {"1", "2"} ->
            Thrown(ErrorObject("Unexpected token in JSON at position 0"))
      [] Len(nb) > 1 /\ nb[1] \in {"1", "2"} ->
            Thrown(ErrorObject("Unexpected non-whitespace character after JSON"))
      [] OTHER -> Returned(NumberValue(IF nb[1] = "1" THEN 1 ELSE 2))

\* readJson(dir, filePath, options)
readJson(fsys, filePath, schema) ==
    LET raw == FsReadFile(fsys, filePath) IN
    IF ~raw.ok THEN raw
    ELSE LET data == JSONParse(raw.value) IN
         IF ~data.ok THEN data
         ELSE IF schema # Undefined THEN SchemaParse(schema, data.value)
         ELSE data

\* raw.trimEnd(): trailing newlines go, the text keeps at least one segment
RECURSIVE TrimEnd(_)
TrimEnd(text) ==
    IF Len(text) > 1 /\ text[Len(text)] = Blank
    THEN TrimEnd(SubSeq(text, 1, Len(text) - 1))
    ELSE text

\* lines.map((line, index) => ...) of readJsonl from the 0-based index on;
\* the first line that throws ends the map
RECURSIVE MapLines(_, _, _)
MapLines(lines, index, schema) ==
    IF index >= Len(lines) THEN Returned(<<>>)
    ELSE LET data == JSONParse(<<lines[index + 1]>>) IN
         IF ~data.ok THEN data
         ELSE LET item == IF schema # Undefined
                          THEN SchemaParse(schema, data.value)
                          ELSE data
              IN IF ~item.ok
                 THEN Thrown(ErrorObject(
                        "JSONL validation failed at line " \o ToString(index + 1)
                        \o ": " \o (IF item.err.isError THEN item.err.message
                                    ELSE String(item.err.value))))
                 ELSE LET rest == MapLines(lines, index + 1, schema) IN
                      IF ~rest.ok THEN rest
                      ELSE Returned(<<item.value>> \o rest.value)

\* readJsonl(dir, filePath, options)
readJsonl(fsys, filePath, schema) ==
    LET raw == FsReadFile(fsys, filePath) IN
    IF ~raw.ok THEN raw
    ELSE LET lines == SelectSeq(TrimEnd(raw.value), LAMBDA line : Len(line) > 0)
             items == MapLines(lines, 0, schema)
         IN IF ~items.ok THEN items ELSE Returned(ArrayValue(items.value))

\* yamlParse(source) of the yaml package
YamlParse(source) ==
    IF \E k \in 1..Len(source) : source[k] = Garbage
    THEN Thrown(ErrorObject("Flow map must end with a }"))
    ELSE Returned(StringValue(source))

\* the segment that closes the frontmatter in
\* /^---\n([\s\S]*?)\n---\n\n?([\s\S]*)$/, 0 when the text does not match
ClosingFence(text) ==
    IF Len(text) >= 4 /\ text[1] = Fence
       /\ \E k \in 3..(Len(text) - 1) : text[k] = Fence
    THEN CHOOSE k \in 3..(Len(text) - 1) :
            /\ text[k] = Fence
            /\ \A j \in 3..(k - 1) : text[j] # Fence
    ELSE 0

\* readMarkdown(dir, filePath, options)
readMarkdown(fsys, filePath, frontmatterSchema) ==
    LET raw == FsReadFile(fsys, filePath) IN
    IF ~raw.ok THEN raw
    ELSE LET text == raw.value
             k == ClosingFence(text)
         IN IF k # 0
            THEN LET parsed == YamlParse(SubSeq(text, 2, k - 1))
                     skip == IF Len(text) >= k + 2 /\ text[k + 1] = Blank
                             THEN 1 ELSE 0
                     body == SubSeq(text, k + 1 + skip, Len(text))
                 IN IF ~parsed.ok THEN parsed
                    ELSE LET fm == IF frontmatterSchema # Undefined
                                   THEN SchemaParse(frontmatterSchema, parsed.value)
                                   ELSE parsed
                         IN IF ~fm.ok THEN fm
                            ELSE Returned(DocumentValue(fm.value, body))
            ELSE LET fm == IF frontmatterSchema # Undefined
                           THEN SchemaParse(frontmatterSchema, ObjectValue({}))
                           ELSE Returned(ObjectValue({}))
                 IN IF ~fm.ok THEN fm
                    ELSE Returned(DocumentValue(fm.value, text))

\* readRaw(dir, filePath)
readRaw(fsys, filePath) ==
    LET raw == FsReadFile(fsys, filePath) IN
    IF ~raw.ok THEN raw ELSE Returned(StringValue(raw.value))

\* readFileByFormat(outputDir, spec)
readFileByFormat(fsys, fileSpec) ==
    CASE fileSpec.format = "json" -> readJson(fsys, fileSpec.path, Undefined)
      [] fileSpec.format = "jsonl" -> readJsonl(fsys, fileSpec.path, Undefined)
      [] fileSpec.format = "markdown" -> readMarkdown(fsys, fileSpec.path, Undefined)
      [] fileSpec.format = "raw" -> readRaw(fsys, fileSpec.path)

(* ---------------------------- validateOutput --------------------------- *)

Descriptions == {"", "The main result"}

\* validate doubles: synchronous results and throw, asynchronous results
Validates == {"returnsTrue", "returnsFalse", "throwsError",
              "resolvesFalse", "rejectsString"}

\* OutputFileSpec; an optional field that is not given is Undefined
FileSpecs ==
    [path : Paths, format : Formats, required : BOOLEAN,
     description : Descriptions \cup {Undefined},
     schema : Schemas \cup {Undefined},
     validate : Validates \cup {Undefined}]

\* fileSpec.validate(content): what the call itself yields, a thrown value
\* or the value / promise that is then awaited
ValidateInvoke(validate, content) ==
    IF validate = "throwsError" THEN Thrown(ErrorObject("boom"))
    ELSE Returned(validate)

\* await of the value ValidateInvoke returned
Await(promise) ==
    CASE promise = "returnsTrue" -> Returned(TRUE)
      [] promise \in {"returnsFalse", "resolvesFalse"} -> Returned(FALSE)
      [] promise = "rejectsString" -> Thrown(ThrownString("nope"))

\* err instanceof Error ? err.message : String(err)
ErrorText(err) == IF err.isError THEN err.message ELSE String(err.value)

\* mutant: the entry carries the joined path
ValidationErrorFullPath(fileSpec, message) ==
    [path |-> PathJoin(OutputDir, fileSpec.path), message |-> message]

\* { path: fileSpec.path, message }
ValidationError(fileSpec, message) == [path |-> fileSpec.path, message |-> message]

\* mutant: entries are put in front (errors.unshift)
PushFront(errs, pushed) == pushed \o errs

\* errors.push(e) for the entries e of pushed, in their order
Push(errs, pushed) == errs \o pushed

\* mutant: the description is dropped from the message
MissingErrorsNoDescription(fileSpec) ==
    IF fileSpec.required
    THEN <<ValidationError(fileSpec, "Required file missing")>>
    ELSE <<>>

\* the catch of fs.access: the entry for a missing file, if any
MissingErrors(fileSpec) ==
    IF fileSpec.required
    THEN LET desc == IF fileSpec.description \notin {Undefined, ""}
                     THEN " (" \o fileSpec.description \o ")" ELSE ""
         IN <<ValidationError(fileSpec, "Required file missing" \o desc)>>
    ELSE <<>>

\* mutant: every item is parsed, also those after the first rejected one
RECURSIVE ParseItemsAll(_, _, _)
ParseItemsAll(schema, items, k) ==
    IF k > Len(items) THEN [calls |-> <<>>, outcome |-> Returned(Undefined)]
    ELSE LET r == SchemaParse(schema, items[k])
             rest == ParseItemsAll(schema, items, k + 1)
         IN [calls |-> <<items[k]>> \o rest.calls,
             outcome |-> IF ~r.ok THEN r ELSE rest.outcome]

\* for (const item of content) fileSpec.schema.parse(item), from item k on:
\* the arguments parse was called with and the first thrown value
RECURSIVE ParseItems(_, _, _)
ParseItems(schema, items, k) ==
    IF k > Len(items) THEN [calls |-> <<>>, outcome |-> Returned(Undefined)]
    ELSE LET r == SchemaParse(schema, items[k]) IN
         IF ~r.ok THEN [calls |-> <<items[k]>>, outcome |-> r]
         ELSE LET rest == ParseItems(schema, items, k + 1) IN
              [calls |-> <<items[k]>> \o rest.calls, outcome |-> rest.outcome]

\* the schema block: the calls of parse and the entries pushed
SchemaStep(fileSpec, content) ==
    IF fileSpec.schema # Undefined
    THEN LET run == IF fileSpec.format = "jsonl" /\ content.t = "array"
                    THEN ParseItems(fileSpec.schema, content.items, 1)
                    ELSE [calls |-> <<content>>,
                          outcome |-> SchemaParse(fileSpec.schema, content)]
         IN [calls |-> run.calls,
             errors |-> IF run.outcome.ok THEN <<>>
                        ELSE <<ValidationError(fileSpec,
                                 "Schema validation failed: "
                                 \o ErrorText(run.outcome.err))>>]
    ELSE [calls |-> <<>>, errors |-> <<>>]

\* mutant: the callback block is skipped once the schema block failed
RunsValidateIfSchemaPassed(fileSpec, schemaErrors) ==
    fileSpec.validate # Undefined /\ schemaErrors = <<>>

\* whether the custom callback block runs, given the entries of the schema block
RunsValidate(fileSpec, schemaErrors) == fileSpec.validate # Undefined

\* the entries of the custom callback block once the awaited value settled
SettledErrors(fileSpec, settled) ==
    IF settled.ok
    THEN IF settled.value = FALSE
         THEN <<ValidationError(fileSpec, "Custom validation returned false")>>
         ELSE <<>>
    ELSE <<ValidationError(fileSpec,
             "Custom validation threw: " \o ErrorText(settled.err))>>

\* mutant: no outer catch, the thrown value leaves validateOutput
OuterCatchRethrow(fileSpec, err) == [caught |-> FALSE, errors |-> <<>>]

\* mutant: the entry does not carry the underlying message
OuterCatchNoDetail(fileSpec, err) ==
    [caught |-> TRUE, errors |-> <<ValidationError(fileSpec, "Failed to read file")>>]

\* the outer try/catch around reading and checking: what it does with a
\* value thrown inside it
OuterCatch(fileSpec, err) ==
    [caught |-> TRUE,
     errors |-> <<ValidationError(fileSpec,
                    "Failed to read file: " \o ErrorText(err))>>]

\* mutant: the loop stops at the first failure
HasNextUntilError(files, index, errs) == index < Len(files) /\ errs = <<>>

\* the for-of loop has another fileSpec
HasNext(files, index, errs) == index < Len(files)

\* mutant: valid does not look at the errors
ValidationResultAlwaysValid(errs) == [valid |-> TRUE, errors |-> errs]

\* { valid: errors.length === 0, errors }
ValidationResult(errs) == [valid |-> Len(errs) = 0, errors |-> errs]

VARIABLES
    fs,             \* the output directory: path -> entry
    pc,             \* where the validateOutput call stands
    spec,           \* the OutputSpec of the call
    index,          \* position of fileSpec in spec.files, 0 before the loop
    errors,         \* const errors
    content,        \* const content, while the callback's value is awaited
    parseCalls,     \* log: <<position of the fileSpec, argument>> per schema.parse call
    validateCalls,  \* log: position of the fileSpec per validate call
    readCalls,      \* log: position of the fileSpec per readFileByFormat call
    result          \* the value the call returned

VARIABLES
    disk,           \* the tree under the managed root: directories and files
    now,            \* the clock, in milliseconds
    active,          \* per process: the WorkspaceManager call it is running
    created,        \* the handles create has returned, oldest first
    cleaned,        \* paths of the handles a cleanup call has completed for
    uuids           \* how many random UUIDs have been drawn

mvars == <<disk, now, active, created, cleaned, uuids>>

vvars == <<fs, pc, spec, index, errors, content, parseCalls, validateCalls,
           readCalls, result>>

vars == <<fs, pc, spec, index, errors, content, parseCalls, validateCalls,
          readCalls, result, mvars>>

NoResult == [valid |-> FALSE, errors |-> <<>>]
NoContent == [t |-> Undefined]

fileSpec == spec.files[index]

Tag(k, calls) == [j \in 1..Len(calls) |-> <<k, calls[j]>>]

\* validateOutput(outputDir, spec) is called; every call starts from fresh
\* locals, so one call per behaviour covers them all
Call(s) ==
    /\ pc = "idle"
    /\ spec' = s
    /\ index' = 0
    /\ errors' = <<>>
    /\ content' = NoContent
    /\ parseCalls' = <<>>
    /\ validateCalls' = <<>>
    /\ readCalls' = <<>>
    /\ result' = NoResult
    /\ pc' = "loop"
    /\ UNCHANGED fs

\* the loop takes the next fileSpec and active fs.access(fullPath)
NextFile ==
    /\ pc = "loop"
    /\ HasNext(spec.files, index, errors)
    /\ index' = index + 1
    /\ pc' = "access"
    /\ UNCHANGED <<fs, spec, errors, content, parseCalls, validateCalls,
                   readCalls, result>>

\* the loop is over: return { valid, errors }
Return ==
    /\ pc = "loop"
    /\ ~HasNext(spec.files, index, errors)
    /\ result' = ValidationResult(errors)
    /\ pc' = "returned"
    /\ UNCHANGED <<fs, spec, index, errors, content, parseCalls,
                   validateCalls, readCalls>>

\* fs.access settles: missing -> maybe an entry, continue; else the file is
\* read with readFileByFormat
AccessSettled ==
    /\ pc = "access"
    /\ IF FsAccess(fs, fileSpec.path).ok
       THEN /\ pc' = "read"
            /\ readCalls' = Append(readCalls, index)
            /\ UNCHANGED errors
       ELSE /\ pc' = "loop"
            /\ errors' = Push(errors, MissingErrors(fileSpec))
            /\ UNCHANGED readCalls
    /\ UNCHANGED <<fs, spec, index, content, parseCalls, validateCalls, result>>

\* the program's side of the read settling: the schema block, and the call
\* of the custom callback
ReadSettledProgram ==
    /\ pc = "read"
    /\ LET read == readFileByFormat(fs, fileSpec) IN
       IF ~read.ok
       THEN LET c == OuterCatch(fileSpec, read.err) IN
            /\ pc' = IF c.caught THEN "loop" ELSE "threw"
            /\ errors' = IF c.caught THEN Push(errors, c.errors) ELSE errors
            /\ UNCHANGED <<content, parseCalls, validateCalls>>
       ELSE LET sch == SchemaStep(fileSpec, read.value)
                errs == Push(errors, sch.errors)
            IN /\ parseCalls' = parseCalls \o Tag(index, sch.calls)
               /\ IF RunsValidate(fileSpec, sch.errors)
                  THEN LET inv == ValidateInvoke(fileSpec.validate, read.value) IN
                       /\ validateCalls' = Append(validateCalls, index)
                       /\ IF inv.ok
                          THEN /\ pc' = "validate"
                               /\ content' = read.value
                               /\ errors' = errs
                          ELSE /\ pc' = "loop"
                               /\ content' = NoContent
                               /\ errors' = Push(errs, SettledErrors(fileSpec, inv))
                  ELSE /\ pc' = "loop"
                       /\ errors' = errs
                       /\ UNCHANGED <<content, validateCalls>>
    /\ UNCHANGED <<spec, index, readCalls, result>>

\* mutant: reading consumes the file
ReadSettledConsuming ==
    ReadSettledProgram /\ fs' = [fs EXCEPT ![fileSpec.path] = Absent]

\* readFileByFormat settles
ReadSettled == ReadSettledProgram /\ UNCHANGED fs

\* the awaited value of the custom callback settles
ValidateSettled ==
    /\ pc = "validate"
    /\ errors' = Push(errors, SettledErrors(fileSpec, Await(fileSpec.validate)))
    /\ content' = NoContent
    /\ pc' = "loop"
    /\ UNCHANGED <<fs, spec, index, parseCalls, validateCalls, readCalls, result>>

Step == NextFile \/ Return \/ AccessSettled \/ ReadSettled \/ ValidateSettled

(* -------------------------- WorkspaceManager --------------------------- *)

(* A path is the sequence of its components below the managed root          *)
(* (path.join(baseDir, prefix)), which is the empty sequence.  A taskType   *)
(* is the sequence of the pieces of its string between '/' characters, and  *)
(* so is a workspace id.  Every fs call (mkdir, writeFile, readdir,         *)
(* readFile, rm) is one step; the active of different processes interleave   *)
(* between them.                                                            *)

\* most workspaces created in one run
MaxCreates == 2

\* latest clock value
MaxTime == 2

\* most workspaces created in a run of two processes
MaxRaced == 1

\* const DEFAULT_DIRS
DEFAULT_DIRS == <<"input", "output", "resources", "scratch">>

\* const META_FILE
META_FILE == ".workspace.json"

Procs == {"p1", "p2"}

TaskTypes == {<<"task">>, <<"nested", "task">>}

AdditionalDirs == {<<>>, <<"logs">>}

MaxAges == {0, 1}

\* a value that may be undefined; v is a sequence when defined
Some(v) == [def |-> TRUE, v |-> v]
None == [def |-> FALSE, v |-> <<>>]

\* a Date: getTime() of an Invalid Date is NaN
DateOf(ms) == [valid |-> TRUE, ms |-> ms]
InvalidDate == [valid |-> FALSE, ms |-> 0]

\* Date.prototype.toISOString and the Date constructor applied to a string
ToISOString(date) == <<"ISO-8601", date.ms>>
DateParse(text) ==
    IF text.def /\ Len(text.v) = 2 /\ text.v[1] = "ISO-8601"
    THEN DateOf(text.v[2])
    ELSE InvalidDate

\* a.getTime() < n
TimeBefore(date, n) == date.valid /\ date.ms < n

\* path.join(base, rel): ".." steps back, anything else steps down
RECURSIVE Join(_, _)
Join(base, rel) ==
    IF rel = <<>> THEN base
    ELSE IF Head(rel) = ".."
         THEN Join(IF base = <<>> THEN base ELSE SubSeq(base, 1, Len(base) - 1),
                   Tail(rel))
         ELSE Join(Append(base, Head(rel)), Tail(rel))

\* path.dirname
Dirname(p) == IF p = <<>> THEN p ELSE SubSeq(p, 1, Len(p) - 1)

Within(p, top) == Len(top) <= Len(p) /\ SubSeq(p, 1, Len(top)) = top

(* ------------------------------ the disk ------------------------------- *)

\* file contents: the text JSON.stringify gives for a metadata record, the
\* texts "null" and "{}", and a text that is not JSON
FileText(kind, id, taskType, createdAt, dirs) ==
    [kind |-> kind, id |-> id, taskType |-> taskType,
     createdAt |-> createdAt, dirs |-> dirs]

NotJson == FileText("garbage", <<>>, <<>>, <<>>, <<>>)
NullText == FileText("null", <<>>, <<>>, <<>>, <<>>)
EmptyObjectText == FileText("emptyObject", <<>>, <<>>, <<>>, <<>>)

\* JSON.stringify(meta, null, 2)
JSONStringify(meta) ==
    FileText("object", meta.id, meta.taskType, meta.createdAt, meta.dirs)

\* JSON.parse(raw) followed by the reads of meta.id, meta.dirs and
\* meta.createdAt: a property of null throws, a property an object lacks is
\* undefined
MetaFields(raw) ==
    CASE raw.kind = "garbage" -> Thrown(ErrorObject("Unexpected token"))
      [] raw.kind = "null" ->
            Thrown(ErrorObject("Cannot read properties of null"))
      [] raw.kind = "emptyObject" ->
            Returned([id |-> None, dirs |-> None, createdAt |-> None])
      [] OTHER ->
            Returned([id |-> Some(raw.id), dirs |-> Some(raw.dirs),
                      createdAt |-> Some(raw.createdAt)])

NoDisk == [dirs |-> {}, files |-> [q \in {} |-> NotJson]]

Exists(d, p) == p \in d.dirs \/ p \in DOMAIN d.files

Prefixes(p) == {SubSeq(p, 1, k) : k \in 0..Len(p)}

\* fs.mkdir(p, { recursive: true })
Mkdir(d, p) ==
    IF Prefixes(p) \cap DOMAIN d.files # {}
    THEN Thrown(ErrorObject("ENOTDIR"))
    ELSE Returned([d EXCEPT !.dirs = @ \cup Prefixes(p)])

\* fs.writeFile(p, text)
WriteFile(d, p, text) ==
    IF p \in d.dirs THEN Thrown(ErrorObject("EISDIR"))
    ELSE IF Dirname(p) \notin d.dirs THEN Thrown(ErrorObject("ENOENT"))
    ELSE Returned([d EXCEPT !.files =
                     [q \in DOMAIN d.files \cup {p} |->
                        IF q = p THEN text ELSE d.files[q]]])

\* fs.readFile(p, 'utf-8')
ReadFile(d, p) ==
    IF p \in DOMAIN d.files THEN Returned(d.files[p])
    ELSE IF p \in d.dirs THEN Thrown(ErrorObject("EISDIR"))
    ELSE Thrown(ErrorObject("ENOENT"))

\* fs.readdir(p, { withFileTypes: true })
Readdir(d, p) ==
    IF p \in DOMAIN d.files THEN Thrown(ErrorObject("ENOTDIR"))
    ELSE IF p \notin d.dirs THEN Thrown(ErrorObject("ENOENT"))
    ELSE Returned({[name |-> q[Len(q)], isDirectory |-> q \in d.dirs] :
                     q \in {r \in d.dirs \cup DOMAIN d.files :
                              Len(r) = Len(p) + 1 /\ Within(r, p)}})

\* fs.rm(p, { recursive: true, force })
RmNoForce(d, p, force) ==
    IF ~Exists(d, p) THEN Thrown(ErrorObject("ENOENT"))
    ELSE Returned([dirs |-> {q \in d.dirs : ~Within(q, p)},
                   files |-> [q \in {r \in DOMAIN d.files : ~Within(r, p)} |->
                                d.files[q]]])

Rm(d, p, force) ==
    IF ~Exists(d, p) /\ ~force THEN Thrown(ErrorObject("ENOENT"))
    ELSE Returned([dirs |-> {q \in d.dirs : ~Within(q, p)},
                   files |-> [q \in {r \in DOMAIN d.files : ~Within(r, p)} |->
                                d.files[q]]])

(* ------------------------------ the active ------------------------------ *)

\* new WorkspaceHandle(id, workspacePath, dirs, createdAt)
WorkspaceHandle(id, workspacePath, dirs, createdAt) ==
    [id |-> id, path |-> workspacePath, dirs |-> dirs, createdAt |-> createdAt]

NoHandle == WorkspaceHandle(None, <<>>, None, InvalidDate)

\* crypto.randomUUID().slice(0, 8): the n-th draw; draws do not repeat
Uuid(n) == "r" \o ToString(n)

\* `${taskType}-${Date.now()}-${crypto.randomUUID().slice(0, 8)}`
IdOf(taskType, time, n) ==
    [taskType EXCEPT ![Len(taskType)] =
        @ \o "-" \o ToString(time) \o "-" \o Uuid(n)]

NoMeta == [id |-> <<>>, taskType |-> <<>>, createdAt |-> <<>>, dirs |-> <<>>]

\* what a pruneStale call that begins right after another pruneStale call
\* with the same argument has returned knows of that call
NoEarlier == [repeated |-> FALSE, cutoff |-> 0, pruned |-> 0]

\* the locals of one call, with the number of its rm steps that found their
\* target present (removed) and what is known of the call before (earlier)
IdleCall ==
    [op |-> "none", pc |-> "idle",
     taskType |-> <<>>, id |-> <<>>, path |-> <<>>, allDirs |-> <<>>,
     pending |-> {}, meta |-> NoMeta, handle |-> NoHandle,
     entries |-> {}, handles |-> <<>>,
     maxAgeMs |-> 0, cutoff |-> 0, position |-> 0, pruned |-> 0,
     section |-> "", fullPath |-> <<>>, text |-> NotJson,
     error |-> ErrorObject(""), listed |-> FALSE,
     earlier |-> NoEarlier, removed |-> 0]

Free(p) == active[p].pc \in {"idle", "returned", "threw"}

Earlier(last, c) ==
    IF /\ c.op = "pruneStale" /\ last.op = "pruneStale"
       /\ last.pc = "returned" /\ last.maxAgeMs = c.maxAgeMs
    THEN [repeated |-> TRUE, cutoff |-> last.cutoff, pruned |-> last.pruned]
    ELSE NoEarlier

Begin(p, c) ==
    active' = [active EXCEPT ![p] = [c EXCEPT !.earlier = Earlier(active[p], c)]]

Range(s) == {s[k] : k \in 1..Len(s)}

\* create(taskType, options) up to its first await
CreateCall(p, taskType, additionalDirs) ==
    /\ Free(p)
    /\ uuids < MaxCreates
    /\ uuids' = uuids + 1
    /\ LET id == IdOf(taskType, now, uuids + 1) IN
       Begin(p, [IdleCall EXCEPT
                   !.op = "create", !.pc = "mkdirRoot",
                   !.taskType = taskType, !.id = id,
                   !.path = Join(<<>>, id),
                   !.allDirs = DEFAULT_DIRS \o additionalDirs])
    /\ UNCHANGED <<disk, now, created, cleaned>>

\* the metadata record written with the root directory, before the sections
CreateMkdirRootThenMeta(p) ==
    /\ active[p].pc = "mkdirRoot"
    /\ LET c == active[p]
           made == Mkdir(disk, c.path)
           meta == [id |-> c.id, taskType |-> c.taskType,
                    createdAt |-> ToISOString(DateOf(now)),
                    dirs |-> c.allDirs]
           written == WriteFile(made.value, Join(c.path, <<META_FILE>>),
                                JSONStringify(meta)) IN
       /\ made.ok /\ written.ok
       /\ disk' = written.value
       /\ active' = [active EXCEPT ![p].pc = "mkdirAll",
                                 ![p].pending = 1..Len(c.allDirs)]
    /\ UNCHANGED <<now, created, cleaned, uuids>>

\* await fs.mkdir(workspacePath, { recursive: true })
CreateMkdirRoot(p) ==
    /\ active[p].pc = "mkdirRoot"
    /\ LET c == active[p]
           made == Mkdir(disk, c.path) IN
       IF made.ok
       THEN /\ disk' = made.value
            /\ active' = [active EXCEPT ![p].pc = "mkdirAll",
                                      ![p].pending = 1..Len(c.allDirs)]
       ELSE /\ disk' = disk
            /\ active' = [active EXCEPT ![p].pc = "threw"]
    /\ UNCHANGED <<now, created, cleaned, uuids>>

\* one of the section mkdirs of Promise.all settles; after the last one the
\* metadata is built and its write begins
CreateMkdirDir(p) ==
    /\ active[p].pc = "mkdirAll"
    /\ \E k \in active[p].pending :
         LET c == active[p]
             made == Mkdir(disk, Join(c.path, <<c.allDirs[k]>>))
             left == c.pending \ {k} IN
         IF ~made.ok
         THEN /\ disk' = disk
              /\ active' = [active EXCEPT ![p].pc = "threw"]
         ELSE /\ disk' = made.value
              /\ active' =
                   IF left # {}
                   THEN [active EXCEPT ![p].pending = left]
                   ELSE [active EXCEPT
                           ![p].pending = left,
                           ![p].pc = "writeMeta",
                           ![p].meta =
                              [id |-> c.id, taskType |-> c.taskType,
                               createdAt |-> ToISOString(DateOf(now)),
                               dirs |-> c.allDirs]]
    /\ UNCHANGED <<now, created, cleaned, uuids>>

\* await fs.writeFile(path.join(workspacePath, META_FILE), ...) settles and
\* create returns the handle
CreateWriteMeta(p) ==
    /\ active[p].pc = "writeMeta"
    /\ LET c == active[p]
           written == WriteFile(disk, Join(c.path, <<META_FILE>>),
                                JSONStringify(c.meta))
           h == WorkspaceHandle(Some(c.id), c.path, Some(c.allDirs),
                                DateParse(Some(c.meta.createdAt))) IN
       IF written.ok
       THEN /\ disk' = written.value
            /\ active' = [active EXCEPT ![p].pc = "returned", ![p].handle = h]
            /\ created' = Append(created, h)
       ELSE /\ disk' = disk
            /\ active' = [active EXCEPT ![p].pc = "threw"]
            /\ created' = created
    /\ UNCHANGED <<now, cleaned, uuids>>

\* cleanup(handle) up to its await
CleanupCall(p, h) ==
    /\ Free(p)
    /\ Begin(p, [IdleCall EXCEPT !.op = "cleanup", !.pc = "rm", !.handle = h])
    /\ UNCHANGED <<disk, now, created, cleaned, uuids>>

\* await fs.rm(handle.path, { recursive: true, force: true }) settles
CleanupRm(p) ==
    /\ active[p].pc = "rm"
    /\ LET c == active[p]
           gone == Rm(disk, c.handle.path, TRUE) IN
       IF gone.ok
       THEN /\ disk' = gone.value
            /\ active' = [active EXCEPT
                           ![p].pc = "returned",
                           ![p].removed = IF Exists(disk, c.handle.path)
                                          THEN 1 ELSE 0]
            /\ cleaned' = cleaned \cup {c.handle.path}
       ELSE /\ disk' = disk
            /\ active' = [active EXCEPT ![p].pc = "threw"]
            /\ cleaned' = cleaned
    /\ UNCHANGED <<now, created, uuids>>

\* list() up to its first await
ListCall(p) ==
    /\ Free(p)
    /\ Begin(p, [IdleCall EXCEPT !.op = "list", !.pc = "readdir"])
    /\ UNCHANGED <<disk, now, created, cleaned, uuids>>

\* pruneStale(maxAgeMs) up to the first await of the list() it starts with
PruneStaleCall(p, maxAgeMs) ==
    /\ Free(p)
    /\ Begin(p, [IdleCall EXCEPT !.op = "pruneStale", !.pc = "readdir",
                                 !.maxAgeMs = maxAgeMs])
    /\ UNCHANGED <<disk, now, created, cleaned, uuids>>

\* the handle list() builds from the text of a metadata file, if any
HandleRead(entryPath, raw) ==
    LET fields == MetaFields(raw) IN
    IF ~fields.ok THEN fields
    ELSE Returned(WorkspaceHandle(fields.value.id, entryPath,
                                  fields.value.dirs,
                                  DateParse(fields.value.createdAt)))

\* the inner try/catch of list(): what is pushed for one directory entry
PushedAlways(d, entry) ==
    LET read == ReadFile(d, <<entry.name, META_FILE>>)
        built == IF read.ok THEN HandleRead(<<entry.name>>, read.value)
                 ELSE read IN
    IF built.ok THEN <<built.value>>
    ELSE <<WorkspaceHandle(Some(<<entry.name>>), <<entry.name>>,
                           Some(DEFAULT_DIRS), DateOf(0))>>

Pushed(d, entry) ==
    LET read == ReadFile(d, <<entry.name, META_FILE>>)
        built == IF read.ok THEN HandleRead(<<entry.name>>, read.value)
                 ELSE read IN
    IF built.ok THEN <<built.value>> ELSE <<>>

\* first position from `from` on whose handle pruneStale cleans up, or 0
NextStale(handles, from, cutoff) ==
    LET stale == {k \in from..Len(handles) :
                    TimeBefore(handles[k].createdAt, cutoff)} IN
    IF stale = {} THEN 0 ELSE CHOOSE k \in stale : \A j \in stale : k <= j

\* list() has its handles: list returns them; pruneStale takes the cutoff
\* and runs its loop up to the first cleanup it awaits
Listed(c, handles) ==
    IF c.op = "list"
    THEN [c EXCEPT !.pc = "returned", !.handles = handles, !.entries = {}]
    ELSE LET cutoff == now - c.maxAgeMs
             first == NextStale(handles, 1, cutoff) IN
         [c EXCEPT !.handles = handles, !.entries = {}, !.cutoff = cutoff,
                   !.position = first,
                   !.pc = IF first = 0 THEN "returned" ELSE "pruneRm"]

\* a failed readdir is not caught
ListReaddirUncaught(p) ==
    /\ active[p].pc = "readdir"
    /\ LET c == active[p]
           read == Readdir(disk, <<>>) IN
       active' = [active EXCEPT ![p] =
                   IF ~read.ok THEN [c EXCEPT !.pc = "threw"]
                   ELSE LET dirs == {e \in read.value : e.isDirectory} IN
                        IF dirs = {} THEN Listed(c, <<>>)
                        ELSE [c EXCEPT !.pc = "scan", !.entries = dirs]]
    /\ UNCHANGED <<disk, now, created, cleaned, uuids>>

\* await fs.readdir(this.root, { withFileTypes: true }) settles; the outer
\* catch turns a failure into the empty result
ListReaddir(p) ==
    /\ active[p].pc = "readdir"
    /\ LET c == active[p]
           read == Readdir(disk, <<>>) IN
       active' = [active EXCEPT ![p] =
                   IF ~read.ok THEN Listed(c, <<>>)
                   ELSE LET dirs == {e \in read.value : e.isDirectory} IN
                        IF dirs = {} THEN Listed(c, <<>>)
                        ELSE [c EXCEPT !.pc = "scan", !.entries = dirs]]
    /\ UNCHANGED <<disk, now, created, cleaned, uuids>>

\* a metadata file that cannot be read or parsed is not skipped
ListReadMetaUncaught(p) ==
    /\ active[p].pc = "scan"
    /\ \E entry \in active[p].entries :
         LET c == active[p]
             pushed == Pushed(disk, entry)
             handles == c.handles \o pushed
             left == c.entries \ {entry} IN
         active' = [active EXCEPT ![p] =
                     IF pushed = <<>> THEN [c EXCEPT !.pc = "threw"]
                     ELSE IF left = {} THEN Listed(c, handles)
                     ELSE [c EXCEPT !.handles = handles, !.entries = left]]
    /\ UNCHANGED <<disk, now, created, cleaned, uuids>>

\* await fs.readFile(metaPath, 'utf-8') settles for the next directory
\* entry, in whatever order readdir gave the entries
ListReadMeta(p) ==
    /\ active[p].pc = "scan"
    /\ \E entry \in active[p].entries :
         LET c == active[p]
             handles == c.handles \o Pushed(disk, entry)
             left == c.entries \ {entry} IN
         active' = [active EXCEPT ![p] =
                     IF left = {} THEN Listed(c, handles)
                     ELSE [c EXCEPT !.handles = handles, !.entries = left]]
    /\ UNCHANGED <<disk, now, created, cleaned, uuids>>

\* the cleanup is counted but removes nothing
PruneRmKeeping(p) ==
    /\ active[p].pc = "pruneRm"
    /\ LET c == active[p]
           following == NextStale(c.handles, c.position + 1, c.cutoff) IN
       active' = [active EXCEPT
                    ![p].pruned = @ + 1,
                    ![p].position = following,
                    ![p].pc = IF following = 0 THEN "returned" ELSE "pruneRm"]
    /\ UNCHANGED <<disk, now, created, cleaned, uuids>>

\* await this.cleanup(handle) settles inside pruneStale; pruned++, and the
\* loop runs on to the next cleanup or to the return
PruneRm(p) ==
    /\ active[p].pc = "pruneRm"
    /\ LET c == active[p]
           target == c.handles[c.position].path
           gone == Rm(disk, target, TRUE)
           following == NextStale(c.handles, c.position + 1, c.cutoff) IN
       IF gone.ok
       THEN /\ disk' = gone.value
            /\ active' = [active EXCEPT
                           ![p].pruned = @ + 1,
                           ![p].removed = IF Exists(disk, target)
                                          THEN @ + 1 ELSE @,
                           ![p].position = following,
                           ![p].pc = IF following = 0 THEN "returned"
                                     ELSE "pruneRm"]
            /\ cleaned' = cleaned \cup {target}
       ELSE /\ disk' = disk
            /\ active' = [active EXCEPT ![p].pc = "threw"]
            /\ cleaned' = cleaned
    /\ UNCHANGED <<now, created, uuids>>

\* time passes
Tick ==
    /\ now < MaxTime
    /\ now' = now + 1
    /\ UNCHANGED <<disk, active, created, cleaned, uuids>>

\* the values handle.writeJson is given, and JSON.stringify(data, null, 2)
\* followed by a newline
JsonData == {"emptyObject", "null"}
DataText(data) == IF data = "null" THEN NullText ELSE EmptyObjectText

Sections == {"output", "archive"}

FilePaths == {<<"data.json">>, <<"..", META_FILE>>}

\* this.dirs.join(', ')
RECURSIVE JoinNames(_)
JoinNames(names) ==
    IF names = <<>> THEN ""
    ELSE IF Len(names) = 1 THEN names[1]
    ELSE names[1] \o ", " \o JoinNames(Tail(names))

\* the section check left out
HandleDirUnchecked(h, section) ==
    IF ~h.dirs.def
    THEN Thrown(ErrorObject("Cannot read properties of undefined"))
    ELSE Returned(Join(h.path, <<section>>))

\* the available sections listed last to first
HandleDirReversed(h, section) ==
    IF ~h.dirs.def
    THEN Thrown(ErrorObject("Cannot read properties of undefined"))
    ELSE IF section \notin Range(h.dirs.v)
    THEN Thrown(ErrorObject("Unknown section \"" \o section
                            \o "\". Available: "
                            \o JoinNames([i \in 1..Len(h.dirs.v) |->
                                   h.dirs.v[Len(h.dirs.v) + 1 - i]])))
    ELSE Returned(Join(h.path, <<section>>))

\* WorkspaceHandle.dir(section)
HandleDir(h, section) ==
    IF ~h.dirs.def
    THEN Thrown(ErrorObject("Cannot read properties of undefined"))
    ELSE IF section \notin Range(h.dirs.v)
    THEN Thrown(ErrorObject("Unknown section \"" \o section
                            \o "\". Available: " \o JoinNames(h.dirs.v)))
    ELSE Returned(Join(h.path, <<section>>))

\* handle.writeJson(section, filePath, data) up to the first await of
\* writeJson(dir, filePath, data)
WriteJsonCall(p, h, section, filePath, data) ==
    /\ Free(p)
    /\ LET dir == HandleDir(h, section) IN
       Begin(p, IF ~dir.ok
                THEN [IdleCall EXCEPT !.op = "writeJson", !.pc = "threw",
                                      !.handle = h, !.section = section,
                                      !.error = dir.err]
                ELSE [IdleCall EXCEPT !.op = "writeJson", !.pc = "writeMkdir",
                                      !.handle = h, !.section = section,
                                      !.fullPath = Join(dir.value, filePath),
                                      !.text = DataText(data)])
    /\ UNCHANGED <<disk, now, created, cleaned, uuids>>

\* await fs.mkdir(path.dirname(fullPath), { recursive: true }) settles
WriteJsonMkdir(p) ==
    /\ active[p].pc = "writeMkdir"
    /\ LET made == Mkdir(disk, Dirname(active[p].fullPath)) IN
       IF made.ok
       THEN /\ disk' = made.value
            /\ active' = [active EXCEPT
                           ![p].pc = IF active[p].op = "symlink"
                                     THEN "symlink" ELSE "writeFile"]
       ELSE /\ disk' = disk
            /\ active' = [active EXCEPT ![p].pc = "threw"]
    /\ UNCHANGED <<now, created, cleaned, uuids>>

\* await fs.writeFile(fullPath, ...) settles
WriteJsonWrite(p) ==
    /\ active[p].pc = "writeFile"
    /\ LET written == WriteFile(disk, active[p].fullPath, active[p].text) IN
       IF written.ok
       THEN /\ disk' = written.value
            /\ active' = [active EXCEPT ![p].pc = "returned"]
       ELSE /\ disk' = disk
            /\ active' = [active EXCEPT ![p].pc = "threw"]
    /\ UNCHANGED <<now, created, cleaned, uuids>>

\* the other methods of a handle that write a file, that read, and the two
\* that copy and link
FileWriters == {"writeJsonl", "writeMarkdown", "writeRaw"}
FileReaders == {"readJson", "readJsonl", "readMarkdown", "readRaw"}
DirReaders == {"listFiles", "readJsonDir"}
Methods == FileWriters \cup FileReaders \cup DirReaders \cup {"copyDir", "symlink"}

\* handle.<method>(section, filePath, ...) up to the first await of the
\* function it hands this.dir(section) to; listed records that the handle is
\* one the caller's preceding list() returned
HandleCall(p, h, method, section, filePath) ==
    /\ Free(p)
    /\ LET dir == HandleDir(h, section)
           listed == active[p].op = "list" /\ h \in Range(active[p].handles) IN
       Begin(p, IF ~dir.ok
                THEN [IdleCall EXCEPT !.op = method, !.pc = "threw",
                                      !.handle = h, !.section = section,
                                      !.error = dir.err, !.listed = listed]
                ELSE [IdleCall EXCEPT
                        !.op = method, !.handle = h, !.section = section,
                        !.listed = listed,
                        !.fullPath = Join(dir.value, filePath),
                        !.pc = IF method \in FileWriters \cup {"symlink"}
                               THEN "writeMkdir"
                               ELSE IF method = "copyDir" THEN "copy"
                               ELSE "read"])
    /\ UNCHANGED <<disk, now, created, cleaned, uuids>>

\* await fs.symlink(targetPath, fullLink) settles
HandleSymlink(p) ==
    /\ active[p].pc = "symlink"
    /\ LET c == active[p]
           linked == WriteFile(disk, c.fullPath, NotJson) IN
       IF ~Exists(disk, c.fullPath) /\ linked.ok
       THEN /\ disk' = linked.value
            /\ active' = [active EXCEPT ![p].pc = "returned"]
       ELSE /\ disk' = disk
            /\ active' = [active EXCEPT ![p].pc = "threw",
                                        ![p].error = ErrorObject("EEXIST")]
    /\ UNCHANGED <<now, created, cleaned, uuids>>

\* await fs.cp(srcPath, fullDest, { recursive: true }) settles, the source
\* an empty directory
HandleCopy(p) ==
    /\ active[p].pc = "copy"
    /\ LET made == Mkdir(disk, active[p].fullPath) IN
       IF made.ok
       THEN /\ disk' = made.value
            /\ active' = [active EXCEPT ![p].pc = "returned"]
       ELSE /\ disk' = disk
            /\ active' = [active EXCEPT ![p].pc = "threw",
                                        ![p].error = made.err]
    /\ UNCHANGED <<now, created, cleaned, uuids>>

\* the first await of a reader settles: fs.readFile(fullPath, 'utf-8') or
\* fs.readdir(fullDir)
HandleFetch(p) ==
    /\ active[p].pc = "read"
    /\ LET c == active[p]
           got == IF c.op \in DirReaders THEN Readdir(disk, c.fullPath)
                  ELSE ReadFile(disk, c.fullPath) IN
       active' = [active EXCEPT
                    ![p].pc = IF got.ok THEN "returned" ELSE "threw",
                    ![p].error = got.err]
    /\ UNCHANGED <<disk, now, created, cleaned, uuids>>

HandleStep(p) == HandleSymlink(p) \/ HandleCopy(p) \/ HandleFetch(p)

\* the steps a call takes after it has begun
CreateStep(p) == CreateMkdirRoot(p) \/ CreateMkdirDir(p) \/ CreateWriteMeta(p)
ListStep(p) == ListReaddir(p) \/ ListReadMeta(p)
WriteJsonStep(p) == WriteJsonMkdir(p) \/ WriteJsonWrite(p)

\* fs.writeFile has opened the metadata file and not yet written the text:
\* the file is there, its text is empty or cut short
CreateOpenMeta(p) ==
    /\ active[p].pc = "writeMeta"
    /\ LET metaPath == Join(active[p].path, <<META_FILE>>)
           opened == WriteFile(disk, metaPath, NotJson) IN
       /\ ~Exists(disk, metaPath)
       /\ opened.ok
       /\ disk' = opened.value
    /\ UNCHANGED <<now, active, created, cleaned, uuids>>

\* the entries below and including top that hold nothing
Leaves(d, top) ==
    {q \in d.dirs \cup DOMAIN d.files :
        /\ Within(q, top)
        /\ \A r \in d.dirs \cup DOMAIN d.files : Within(r, q) => r = q}

\* fs.rm(handle.path, { recursive: true, force: true }) entry by entry: it
\* unlinks a file or removes an emptied directory, the target itself last
CleanupRmEntry(p) ==
    /\ active[p].pc = "rm"
    /\ LET target == active[p].handle.path IN
       IF ~Exists(disk, target)
       THEN /\ disk' = disk
            /\ active' = [active EXCEPT ![p].pc = "returned"]
            /\ cleaned' = cleaned \cup {target}
       ELSE \E q \in Leaves(disk, target) :
              /\ disk' = Rm(disk, q, TRUE).value
              /\ active' = [active EXCEPT
                              ![p].removed = 1,
                              ![p].pc = IF q = target THEN "returned" ELSE "rm"]
              /\ cleaned' = IF q = target THEN cleaned \cup {target}
                            ELSE cleaned
    /\ UNCHANGED <<now, created, uuids>>

\* an await fs.mkdir of create rejects (permission denied): create throws
\* the error; the section mkdirs not yet settled stay in flight
CreateMkdirFails(p) ==
    /\ active[p].pc \in {"mkdirRoot", "mkdirAll"}
    /\ \/ /\ active[p].pc = "mkdirRoot"
          /\ active' = [active EXCEPT ![p].pc = "threw",
                                      ![p].error = ErrorObject("EACCES")]
       \/ /\ active[p].pc = "mkdirAll"
          /\ \E k \in active[p].pending :
                active' = [active EXCEPT ![p].pc = "threw",
                                         ![p].pending = @ \ {k},
                                         ![p].error = ErrorObject("EACCES")]
    /\ UNCHANGED <<disk, now, created, cleaned, uuids>>

\* a section mkdir of Promise.all settles after create has thrown
CreateMkdirLate(p) ==
    /\ active[p].op = "create" /\ active[p].pc = "threw"
    /\ \E k \in active[p].pending :
         LET c == active[p]
             made == Mkdir(disk, Join(c.path, <<c.allDirs[k]>>)) IN
         /\ disk' = IF made.ok THEN made.value ELSE disk
         /\ active' = [active EXCEPT ![p].pending = @ \ {k}]
    /\ UNCHANGED <<now, created, cleaned, uuids>>

\* the failed write has left the whole record behind
CreateWriteFailsWritten(p) ==
    /\ active[p].pc = "writeMeta"
    /\ disk' = WriteFile(disk, Join(active[p].path, <<META_FILE>>),
                         JSONStringify(active[p].meta)).value
    /\ active' = [active EXCEPT ![p].pc = "threw",
                                ![p].error = ErrorObject("ENOSPC")]
    /\ UNCHANGED <<now, created, cleaned, uuids>>

\* await fs.writeFile of the metadata rejects (no space, permission denied):
\* the file is not there or holds the text cut short; create throws the error
CreateWriteFails(p) ==
    /\ active[p].pc = "writeMeta"
    /\ \/ disk' = disk
       \/ disk' = WriteFile(disk, Join(active[p].path, <<META_FILE>>),
                            NotJson).value
    /\ active' = [active EXCEPT ![p].pc = "threw",
                                ![p].error = ErrorObject("ENOSPC")]
    /\ UNCHANGED <<now, created, cleaned, uuids>>

\* no manager call has been made and the managed root does not exist
ManagerIdle ==
    /\ disk = NoDisk
    /\ now = 0
    /\ active = [p \in Procs |-> IdleCall]
    /\ created = <<>>
    /\ cleaned = {}
    /\ uuids = 0

(* ---------------------------- specifications --------------------------- *)

\* Batch runs: up to MaxSpecs file specs over one-segment files.
BatchFileStates == {Absent} \cup {RegularFile(<<s>>) : s \in Segments}

BatchFileSpecs ==
    {f \in FileSpecs :
        /\ f.format = "json"
        /\ f.description = Undefined
        /\ f.schema \in {Undefined, "notTwo"}
        /\ f.validate \in {Undefined, "resolvesFalse", "throwsError"}}

BatchSpecs ==
    {[files |-> fl] : fl \in UNION {[1..k -> BatchFileSpecs] : k \in 0..MaxSpecs}}

IdleProgram ==
    /\ pc = "idle"
    /\ spec = [files |-> <<>>]
    /\ index = 0
    /\ errors = <<>>
    /\ content = NoContent
    /\ parseCalls = <<>>
    /\ validateCalls = <<>>
    /\ readCalls = <<>>
    /\ result = NoResult

Init ==
    /\ fs \in [Paths -> BatchFileStates]
    /\ IdleProgram
    /\ ManagerIdle

Next ==
    /\ (pc = "idle" /\ \E s \in BatchSpecs : Call(s)) \/ Step
    /\ UNCHANGED mvars

Spec == Init /\ [][Next]_vars

\* Single-file runs: one file spec of any shape over a directory that holds
\* at most one entry, of any kind and text.
OneFileSpecs == {[files |-> <<f>>] : f \in FileSpecs}

InitOneFile ==
    /\ fs \in {f \in [Paths -> FileStates] :
                 Cardinality({p \in Paths : f[p] # Absent}) <= 1}
    /\ IdleProgram
    /\ ManagerIdle

NextOneFile ==
    /\ (pc = "idle" /\ \E s \in OneFileSpecs : Call(s)) \/ Step
    /\ UNCHANGED mvars

SpecOneFile == InitOneFile /\ [][NextOneFile]_vars

(* Single-file runs beside a process that removes the file between the    *)
(* existence check and the read.                                           *)

\* another process removes the file the call is about to read
Unlink ==
    /\ pc = "read"
    /\ fs[fileSpec.path] # Absent
    /\ fs' = [fs EXCEPT ![fileSpec.path] = Absent]
    /\ UNCHANGED <<pc, spec, index, errors, content, parseCalls,
                   validateCalls, readCalls, result>>

NextRemoval ==
    /\ \/ pc = "idle" /\ \E s \in OneFileSpecs : Call(s)
       \/ Step
       \/ Unlink
    /\ UNCHANGED mvars

SpecRemoval == InitOneFile /\ [][NextRemoval]_vars

(* The readers called on their own: one call of readJson, readJsonl,       *)
(* readMarkdown or readRaw, with or without a schema, over a directory     *)
(* that holds at most one entry, of any kind and text.                     *)

\* a reader is called and awaits fs.readFile
ReaderCall(reader, filePath, schema) ==
    /\ pc = "idle"
    /\ spec' = [reader |-> reader, path |-> filePath, schema |-> schema]
    /\ pc' = "reading"
    /\ UNCHANGED <<fs, index, errors, content, parseCalls, validateCalls,
                   readCalls, result>>

\* fs.readFile settles and the reader runs to its end: content holds what
\* the returned promise settles with
ReaderSettled ==
    /\ pc = "reading"
    /\ content' =
         CASE spec.reader = "readJson" -> readJson(fs, spec.path, spec.schema)
           [] spec.reader = "readJsonl" -> readJsonl(fs, spec.path, spec.schema)
           [] spec.reader = "readMarkdown" ->
                 readMarkdown(fs, spec.path, spec.schema)
           [] spec.reader = "readRaw" -> readRaw(fs, spec.path)
    /\ pc' = "settled"
    /\ UNCHANGED <<fs, spec, index, errors, parseCalls, validateCalls,
                   readCalls, result>>

NextReaders ==
    /\ \/ \E r \in FileReaders, f \in Paths, sch \in Schemas \cup {Undefined} :
             ReaderCall(r, f, sch)
       \/ ReaderSettled
    /\ UNCHANGED mvars

SpecReaders == InitOneFile /\ [][NextReaders]_vars

(* One process calling the manager, one call after the other, over a root  *)
(* that may hold a directory and a file the manager did not create.        *)

ForeignKinds == {"noMeta", "garbage", "null", "emptyObject", "metaIsDir"}

Foreign == <<"foreign">>
Stray == <<"notes.txt">>

RootOnly == [NoDisk EXCEPT !.dirs = {<<>>}]

WithForeign(d, kind) ==
    LET metaPath == Join(Foreign, <<META_FILE>>)
        made == Mkdir(d, Foreign).value IN
    CASE kind = "noMeta" -> made
      [] kind = "metaIsDir" -> Mkdir(made, metaPath).value
      [] kind = "garbage" -> WriteFile(made, metaPath, NotJson).value
      [] kind = "null" -> WriteFile(made, metaPath, NullText).value
      [] OTHER -> WriteFile(made, metaPath, EmptyObjectText).value

WithStray(d) == WriteFile(d, Stray, NotJson).value

InitialDisks ==
    {NoDisk, RootOnly, WithStray(RootOnly)}
    \cup {WithForeign(RootOnly, k) : k \in ForeignKinds}
    \cup {WithStray(WithForeign(RootOnly, k)) : k \in ForeignKinds}

ValidationIdle ==
    /\ fs = [p \in Paths |-> Absent]
    /\ IdleProgram

InitManager ==
    /\ disk \in InitialDisks
    /\ now = 0
    /\ active = [p \in Procs |-> IdleCall]
    /\ created = <<>>
    /\ cleaned = {}
    /\ uuids = 0
    /\ ValidationIdle

NextManager ==
    /\ \/ Tick
       \/ CreateCall("p1", <<"task">>, <<>>)
       \/ CreateStep("p1")
       \/ \E h \in Range(created) : CleanupCall("p1", h)
       \/ CleanupRm("p1")
       \/ ListCall("p1")
       \/ \E m \in MaxAges : PruneStaleCall("p1", m)
       \/ ListStep("p1")
       \/ PruneRm("p1")
    /\ UNCHANGED vvars

SpecManager == InitManager /\ [][NextManager]_vars


(* Two processes on one root: the steps of their calls interleave.         *)

InitRace ==
    /\ ManagerIdle
    /\ ValidationIdle

NextRace ==
    /\ \/ Tick
       \/ uuids < MaxRaced /\ CreateCall("p1", <<"task">>, <<>>)
       \/ CreateStep("p1")
       \/ \E p \in Procs :
            \/ \E h \in Range(created) : CleanupCall(p, h)
            \/ CleanupRm(p)
            \/ ListCall(p)
            \/ PruneStaleCall(p, 0)
            \/ ListStep(p)
            \/ PruneRm(p)
    /\ UNCHANGED vvars

SpecRace == InitRace /\ [][NextRace]_vars

(* One process that creates workspaces, writes through the handles create   *)
(* returned, and lists.                                                    *)

NextHandles ==
    /\ \/ \E t \in TaskTypes, a \in AdditionalDirs : CreateCall("p1", t, a)
       \/ CreateStep("p1")
       \/ \E h \in Range(created), sec \in Sections, f \in FilePaths,
             data \in JsonData : WriteJsonCall("p1", h, sec, f, data)
       \/ WriteJsonStep("p1")
       \/ ListCall("p1")
       \/ ListStep("p1")
    /\ UNCHANGED vvars

SpecHandles == InitRace /\ [][NextHandles]_vars

(* One process that creates a workspace, lists, and calls the methods of   *)
(* the handles it holds: the ones create returned and the ones its last    *)
(* call, a list(), returned.                                               *)

Held == Range(created) \cup
        (IF active["p1"].op = "list" /\ active["p1"].pc = "returned"
         THEN Range(active["p1"].handles) ELSE {})

NextMethods ==
    /\ \/ uuids < MaxRaced /\ \E a \in AdditionalDirs :
             CreateCall("p1", <<"task">>, a)
       \/ CreateStep("p1")
       \/ \E h \in Held, sec \in Sections, f \in FilePaths :
             WriteJsonCall("p1", h, sec, f, "emptyObject")
       \/ \E h \in Held, m \in Methods, sec \in Sections :
             HandleCall("p1", h, m, sec, <<"data.json">>)
       \/ WriteJsonStep("p1")
       \/ HandleStep("p1")
       \/ ListCall("p1")
       \/ ListStep("p1")
    /\ UNCHANGED vvars

SpecMethods == InitRace /\ [][NextMethods]_vars

(* One process that creates workspaces whose additionalDirs may repeat a   *)
(* default or one of their own names, and lists.                           *)

DeclaredDirs == AdditionalDirs \cup {<<"input">>, <<"logs", "logs">>}

NextSections ==
    /\ \/ \E a \in DeclaredDirs : CreateCall("p1", <<"task">>, a)
       \/ CreateStep("p1")
       \/ ListCall("p1")
       \/ ListStep("p1")
    /\ UNCHANGED vvars

SpecSections == InitRace /\ [][NextSections]_vars

(* One process that creates a workspace, cleans it up, lists, and goes on  *)
(* calling the methods of the handle create returned.                      *)

NextReuse ==
    /\ \/ uuids < MaxRaced /\ CreateCall("p1", <<"task">>, <<>>)
       \/ CreateStep("p1")
       \/ \E h \in Range(created) : CleanupCall("p1", h)
       \/ CleanupRm("p1")
       \/ \E h \in Range(created), f \in FilePaths, data \in JsonData :
             WriteJsonCall("p1", h, "output", f, data)
       \/ \E h \in Range(created), m \in Methods, f \in FilePaths :
             HandleCall("p1", h, m, "output", f)
       \/ WriteJsonStep("p1")
       \/ HandleStep("p1")
       \/ ListCall("p1")
       \/ ListStep("p1")
    /\ UNCHANGED vvars

SpecReuse == InitRace /\ [][NextReuse]_vars

(* One process whose creates may fail at any mkdir and at the metadata     *)
(* write, beside a process that lists.                                     *)

NextFailing ==
    /\ \/ CreateCall("p1", <<"task">>, <<>>)
       \/ CreateStep("p1")
       \/ CreateMkdirFails("p1")
       \/ CreateMkdirLate("p1")
       \/ CreateWriteFails("p1")
       \/ ListCall("p2")
       \/ ListStep("p2")
    /\ UNCHANGED vvars

SpecFailing == InitRace /\ [][NextFailing]_vars

(* One process that creates workspaces of any task type, cleans up and     *)
(* lists, over a root that holds nothing else.                             *)

NextTaskTypes ==
    /\ \/ \E t \in TaskTypes : CreateCall("p1", t, <<>>)
       \/ CreateStep("p1")
       \/ \E h \in Range(created) : CleanupCall("p1", h)
       \/ CleanupRm("p1")
       \/ ListCall("p1")
       \/ ListStep("p1")
    /\ UNCHANGED vvars

SpecTaskTypes == InitRace /\ [][NextTaskTypes]_vars

(* One process creates and cleans up, the metadata write and the          *)
(* recursive removal taking effect piece by piece, while another lists.    *)

NextScan ==
    /\ \/ uuids < MaxRaced /\ \E a \in AdditionalDirs :
                                 CreateCall("p1", <<"task">>, a)
       \/ CreateStep("p1")
       \/ CreateOpenMeta("p1")
       \/ \E h \in Range(created) : CleanupCall("p1", h)
       \/ CleanupRmEntry("p1")
       \/ ListCall("p2")
       \/ ListStep("p2")
    /\ UNCHANGED vvars

SpecScan == InitRace /\ [][NextScan]_vars

(* ------------------------------- claims -------------------------------- *)

\* what the loop body pushes for one fileSpec over the directory fsys
OwnErrors(f, fsys) ==
    IF ~FsAccess(fsys, f.path).ok THEN MissingErrors(f)
    ELSE LET read == readFileByFormat(fsys, f) IN
         IF ~read.ok THEN OuterCatch(f, read.err).errors
         ELSE SchemaStep(f, read.value).errors
              \o (IF f.validate = Undefined THEN <<>>
                  ELSE LET inv == ValidateInvoke(f.validate, read.value) IN
                       SettledErrors(f, IF inv.ok THEN Await(inv.value) ELSE inv))

\* OwnErrors of the first n file specs, one after the other
RECURSIVE ConcatOwn(_, _, _)
ConcatOwn(files, fsys, n) ==
    IF n = 0 THEN <<>>
    ELSE ConcatOwn(files, fsys, n - 1) \o OwnErrors(files[n], fsys)

IsPrefix(a, b) == Len(a) <= Len(b) /\ SubSeq(b, 1, Len(a)) = a

\* texts of the values the schema and validate doubles throw
ThrownTexts == {"must not be 2", "rejected", "boom", "nope"}

StartsWith(message, prefix) == \E t \in ThrownTexts : message = prefix \o t

\* the one file spec of a single-file call
TheFile == spec.files[1]

\* C1: validateOutput never raises: whatever the directory holds and whatever
\* the schema and the callback do, the call never ends by throwing, and what
\* it returns is a { valid, errors } value.
C1_NeverRaises ==
    /\ pc \in {"idle", "loop", "access", "read", "validate", "returned"}
    /\ pc \in {"access", "read", "validate"} => index \in 1..Len(spec.files)
    /\ pc = "returned" =>
          /\ result.valid \in BOOLEAN
          /\ \A j \in 1..Len(result.errors) :
                DOMAIN result.errors[j] = {"path", "message"}

\* a call returned after readFile failed on a directory
C1_Witness ==
    /\ pc = "returned"
    /\ fs[TheFile.path].kind = "dir"
    /\ Len(result.errors) = 1
    /\ result.errors[1].message
         = "Failed to read file: EISDIR: illegal operation on a directory, read"

\* C2: validation completeness: the returned errors are exactly the errors of
\* each file spec, one spec after the other, each determined by that spec and
\* its file alone and numbering 0, 1 or 2; no spec's failure changes what
\* another spec contributes.
C2_Completeness ==
    pc = "returned" =>
        /\ result.errors = ConcatOwn(spec.files, fs, Len(spec.files))
        /\ \A k \in 1..Len(spec.files) : Len(OwnErrors(spec.files[k], fs)) \in {0, 1, 2}

\* two specs, the first fails with two errors and the second still reports its own
C2_Witness ==
    /\ pc = "returned"
    /\ Len(spec.files) = 2
    /\ Len(OwnErrors(spec.files[1], fs)) = 2
    /\ Len(OwnErrors(spec.files[2], fs)) = 1
    /\ Len(result.errors) = 3

\* C3: for a file that exists and decodes, the callback is called whether the
\* schema check passed or failed; when the schema rejects and the callback
\* returns false or throws, the file contributes exactly two errors, the
\* schema one and then the callback one.
C3_SchemaAndCallback ==
    (pc = "returned" /\ Len(spec.files) = 1) =>
        LET read == readFileByFormat(fs, TheFile) IN
        (FsAccess(fs, TheFile.path).ok /\ read.ok /\ TheFile.validate # Undefined) =>
            /\ validateCalls = <<1>>
            /\ (/\ TheFile.schema # Undefined
                /\ SchemaStep(TheFile, read.value).errors # <<>>
                /\ TheFile.validate # "returnsTrue") =>
                   /\ Len(result.errors) = 2
                   /\ StartsWith(result.errors[1].message, "Schema validation failed: ")
                   /\ IF TheFile.validate \in {"returnsFalse", "resolvesFalse"}
                      THEN result.errors[2].message = "Custom validation returned false"
                      ELSE StartsWith(result.errors[2].message, "Custom validation threw: ")

\* the schema rejected and the callback's promise rejected: two errors
C3_Witness ==
    /\ pc = "returned"
    /\ TheFile.schema = "notTwo"
    /\ TheFile.validate = "rejectsString"
    /\ validateCalls = <<1>>
    /\ Len(result.errors) = 2
    /\ result.errors[1].message = "Schema validation failed: must not be 2"
    /\ result.errors[2].message = "Custom validation threw: nope"

\* C4: existence step: an absent file contributes exactly 'Required file
\* missing', followed by ' (<description>)' when a (non-empty) description is
\* given, if required, and nothing if not required; the file is not read and
\* neither schema.parse nor validate is called.
C4_MissingFile ==
    (pc = "returned" /\ Len(spec.files) = 1 /\ fs[TheFile.path].kind = "absent") =>
        /\ result.errors =
             IF TheFile.required
             THEN <<[path |-> TheFile.path,
                     message |-> IF TheFile.description = "The main result"
                                 THEN "Required file missing (The main result)"
                                 ELSE "Required file missing"]>>
             ELSE <<>>
        /\ readCalls = <<>>
        /\ parseCalls = <<>>
        /\ validateCalls = <<>>

\* a required file with a description, a schema and a callback is absent
C4_Witness ==
    /\ pc = "returned"
    /\ fs[TheFile.path].kind = "absent"
    /\ TheFile.required
    /\ TheFile.description = "The main result"
    /\ TheFile.schema # Undefined
    /\ TheFile.validate # Undefined
    /\ Len(result.errors) = 1

\* C5: read step: when the file exists but decoding it fails, the spec
\* contributes exactly 'Failed to read file: <underlying message>' and
\* neither schema.parse nor validate is called.
C5_ReadFailure ==
    (pc = "returned" /\ Len(spec.files) = 1) =>
        LET read == readFileByFormat(fs, TheFile) IN
        (fs[TheFile.path].kind # "absent" /\ ~read.ok) =>
            /\ result.errors =
                 <<[path |-> TheFile.path,
                    message |-> "Failed to read file: " \o read.err.message]>>
            /\ parseCalls = <<>>
            /\ validateCalls = <<>>

\* a file of malformed JSON, with a schema and a callback configured
C5_Witness ==
    /\ pc = "returned"
    /\ TheFile.format = "json"
    /\ fs[TheFile.path] = RegularFile(<<Garbage, Blank>>)
    /\ TheFile.schema # Undefined
    /\ TheFile.validate # Undefined
    /\ result.errors[1].message
         = "Failed to read file: Unexpected token in JSON at position 0"

\* C6: in every returned ValidationResult valid is true exactly when errors
\* is empty; an empty OutputSpec yields { valid: true, errors: [] }.
C6_ValidIffNoErrors ==
    pc = "returned" =>
        /\ result.valid <=> (Len(result.errors) = 0)
        /\ spec.files = <<>> => result = [valid |-> TRUE, errors |-> <<>>]

\* a call over two specs returned an invalid result
C6_Witness ==
    /\ pc = "returned"
    /\ Len(spec.files) = 2
    /\ ~result.valid
    /\ Len(result.errors) = 1

\* C7: the errors keep spec-declaration order: at every point of the call the
\* errors are those of the specs already done, in order, followed by the
\* errors so far of the spec in hand, the schema error before the callback
\* error, however long an asynchronous callback is pending.
C7_DeclarationOrder ==
    LET done == IF pc \in {"access", "read", "validate"} THEN index - 1 ELSE index
    IN /\ IsPrefix(ConcatOwn(spec.files, fs, done), errors)
       /\ IsPrefix(errors, ConcatOwn(spec.files, fs, index))
       /\ pc = "returned" => result.errors = errors

\* the second spec's asynchronous callback is pending after both specs'
\* schemas rejected and the first spec's callback reported
C7_Witness ==
    /\ pc = "validate"
    /\ index = 2
    /\ spec.files[1].path # spec.files[2].path
    /\ spec.files[1].validate = "resolvesFalse"
    /\ Len(errors) = 3
    /\ errors[1].path = spec.files[1].path
    /\ errors[2].message = "Custom validation returned false"
    /\ errors[3].path = spec.files[2].path

\* C8: every ValidationError's path is the path of the file spec that
\* produced it, the relative path and never the joined one, for all four
\* kinds of error.
C8_RelativePath ==
    Len(spec.files) = 1 =>
        \A j \in 1..Len(errors) :
            /\ errors[j].path = TheFile.path
            /\ errors[j].path # PathJoin(OutputDir, TheFile.path)

\* a schema error and a callback error of one file
C8_Witness ==
    /\ pc = "returned"
    /\ Len(result.errors) = 2
    /\ result.errors[1].path = TheFile.path
    /\ result.errors[2].message = "Custom validation threw: boom"

\* the position of the first item the schema rejects, 0 when it accepts all
FirstRejected(schema, items) ==
    IF \E k \in 1..Len(items) : ~SchemaParse(schema, items[k]).ok
    THEN CHOOSE k \in 1..Len(items) :
            /\ ~SchemaParse(schema, items[k]).ok
            /\ \A j \in 1..(k - 1) : SchemaParse(schema, items[j]).ok
    ELSE 0

\* C9: for a jsonl spec with a schema, parse is called on the decoded items
\* in file order up to and including the first one it rejects and on none
\* after it; the file contributes one 'Schema validation failed: ...' error
\* if some item is rejected, however many are, and none otherwise.
C9_JsonlFirstFailure ==
    (pc = "returned" /\ Len(spec.files) = 1 /\ TheFile.format = "jsonl"
       /\ TheFile.schema # Undefined) =>
        LET read == readJsonl(fs, TheFile.path, Undefined) IN
        read.ok =>
            LET items == read.value.items
                first == FirstRejected(TheFile.schema, items)
                last == IF first = 0 THEN Len(items) ELSE first
                schemaErrors == {j \in 1..Len(result.errors) :
                                   StartsWith(result.errors[j].message,
                                              "Schema validation failed: ")}
            IN /\ parseCalls = [j \in 1..last |-> <<1, items[j]>>]
               /\ Cardinality(schemaErrors) = IF first = 0 THEN 0 ELSE 1

\* the first of two items is rejected: the second never reaches parse
C9_Witness ==
    /\ pc = "returned"
    /\ TheFile.format = "jsonl"
    /\ TheFile.schema = "notTwo"
    /\ fs[TheFile.path] = RegularFile(<<"2", "2", Blank>>)
    /\ Len(parseCalls) = 1
    /\ Len(result.errors) = 1

\* C10: validateOutput is non-destructive: no step of the call changes the
\* entries of the output directory or their texts.
C10_NonDestructive == [][fs' = fs]_vars

\* a call that read and checked an existing file has returned
C10_Witness ==
    /\ pc = "returned"
    /\ fs[TheFile.path].kind = "file"
    /\ readCalls = <<1>>
    /\ Len(parseCalls) = 1
    /\ validateCalls = <<1>>

(* ------------------------ claims on the manager ------------------------ *)

\* the handle came from a well-formed metadata record
FromRecord(h) == h.id.def /\ h.dirs.def /\ h.createdAt.valid

\* the handles of a pruneStale or list call of process p
HandlesOf(p) == Range(active[p].handles)

Returning(p, op) == active[p].op = op /\ active[p].pc = "returned"

\* the clock value the cutoff of p's pruneStale call was taken at
CutoffTime(p) == active[p].cutoff + active[p].maxAgeMs

\* C11: when pruneStale(maxAgeMs) has returned, every workspace with valid
\* metadata that its list() found is gone if and only if its age at the
\* time of the cutoff, now - createdAt, was at least maxAgeMs; so
\* pruneStale(0) in the millisecond of the create removes the workspace.
C11_RemovedIffAgeAtLeast ==
    Returning("p1", "pruneStale") =>
        \A h \in HandlesOf("p1") :
            FromRecord(h) =>
                (~Exists(disk, h.path)
                   <=> CutoffTime("p1") - h.createdAt.ms >= active["p1"].maxAgeMs)

\* C11: a pruneStale(0) call has returned whose cutoff was taken in the
\* millisecond a listed workspace was created in
C11_Witness ==
    /\ Returning("p1", "pruneStale")
    /\ active["p1"].maxAgeMs = 0
    /\ \E h \in HandlesOf("p1") :
          FromRecord(h) /\ h.createdAt.ms = CutoffTime("p1")

\* C12: what pruneStale returns is the number of workspaces it removed: the
\* count it returns equals the number of its cleanup steps that found the
\* workspace root still present, whatever another process does to the root
\* between this call's list() and its cleanups.
C12_CountsActualRemovals ==
    \A p \in Procs :
        Returning(p, "pruneStale") => active[p].pruned = active[p].removed

\* C12: a pruneStale call has returned one of whose cleanups found the
\* workspace already removed by the other process
C12_Witness ==
    \E p \in Procs :
        /\ Returning(p, "pruneStale")
        /\ active[p].removed < Len(active[p].handles)
        /\ \A h \in HandlesOf(p) : TimeBefore(h.createdAt, active[p].cutoff)

\* p1's pruneStale call began right after a pruneStale call with the same
\* maxAgeMs had returned to p1
Repeated == active["p1"].op = "pruneStale" /\ active["p1"].earlier.repeated

CutoffTaken == active["p1"].pc \in {"pruneRm", "returned"}

\* C13 as stated: a pruneStale(maxAgeMs) call that follows another one, no
\* create in between, never gets to a cleanup and returns 0.
C13_SecondCallRemovesNothing ==
    Repeated => active["p1"].pc # "pruneRm" /\ active["p1"].pruned = 0

\* C13, amended: a pruneStale(maxAgeMs) call that follows another one, no
\* create in between, never gets to a cleanup and returns 0 when its cutoff
\* is the cutoff of the call before (the clock has not advanced between the
\* two); in any case every workspace it cleans up was created at or after
\* the cutoff of the call before.
C13_SecondCallSameCutoff ==
    Repeated /\ CutoffTaken =>
        LET c == active["p1"] IN
        /\ c.cutoff = c.earlier.cutoff => c.pc # "pruneRm" /\ c.pruned = 0
        /\ \A h \in HandlesOf("p1") :
              TimeBefore(h.createdAt, c.cutoff)
                  => h.createdAt.ms >= c.earlier.cutoff

\* C13: the second call has returned 0 with the cutoff of the first, which
\* had removed a workspace
C13_Witness ==
    /\ Repeated
    /\ Returning("p1", "pruneStale")
    /\ active["p1"].cutoff = active["p1"].earlier.cutoff
    /\ active["p1"].earlier.pruned > 0
    /\ active["p1"].pruned = 0

\* the directory at path p holds a well-formed metadata record
WellFormed(d, p) ==
    LET read == ReadFile(d, Join(p, <<META_FILE>>)) IN
    read.ok /\ read.value.kind = "object"

\* C14: list() never raises, and when it has returned, no directory whose
\* metadata is missing, unreadable, unparsable or not a well-formed record
\* is among its handles, while every workspace create has returned and that
\* is still on disk is.
C14_CorruptNeverListed ==
    /\ active["p1"].op = "list" => active["p1"].pc # "threw"
    /\ Returning("p1", "list") =>
          /\ \A h \in HandlesOf("p1") : WellFormed(disk, h.path)
          /\ \A c \in Range(created) :
                Exists(disk, c.path) => \E h \in HandlesOf("p1") : h = c

\* C14: list() has returned a handle for a directory whose metadata file
\* holds "{}"
C14_Witness ==
    /\ Returning("p1", "list")
    /\ \E h \in HandlesOf("p1") :
          /\ ~h.id.def
          /\ ReadFile(disk, Join(h.path, <<META_FILE>>)).value = EmptyObjectText

RootAbsent == <<>> \notin disk.dirs

\* C15: while the managed root does not exist, no step of a list() or
\* pruneStale call changes the disk (the root is not created), neither call
\* ends by throwing, and what they return is the empty sequence and 0.
C15_AbsentRoot ==
    [][(RootAbsent /\ active'["p1"].op \in {"list", "pruneStale"}) =>
          /\ disk' = disk
          /\ active'["p1"].pc \in {"readdir", "returned"}
          /\ active'["p1"].handles = <<>>
          /\ active'["p1"].pruned = 0]_vars

\* C15: pruneStale has returned 0 over an absent root
C15_Witness ==
    /\ RootAbsent
    /\ Returning("p1", "pruneStale")
    /\ active["p1"].pruned = 0

\* C16: when list() has returned, each of its handles for a workspace that
\* create returned a handle for has that handle's id and section sequence,
\* whatever was written through the handles in between.
C16_RoundTrip ==
    Returning("p1", "list") =>
        \A h \in HandlesOf("p1") : \A c \in Range(created) :
            h.path = c.path => h.id = c.id /\ h.dirs = c.dirs

\* C16: list() has returned a handle for a created workspace after a
\* writeJson through a handle had returned
C16_Witness ==
    /\ Returning("p1", "list")
    /\ \E h \in HandlesOf("p1") : \E c \in Range(created) :
          h.path = c.path /\ h.id # c.id

\* the handles list() would build from the disk as it is
Listable(d) ==
    LET read == Readdir(d, <<>>) IN
    IF ~read.ok THEN {}
    ELSE UNION {Range(Pushed(d, e)) : e \in {x \in read.value : x.isDirectory}}

SectionsPresent(d, h) ==
    \A k \in 1..Len(h.dirs.v) : Join(h.path, <<h.dirs.v[k]>>) \in d.dirs

Live == {c \in Range(created) : c.path \notin cleaned}

\* C18: after any sequence of create and cleanup calls, for every taskType,
\* what list() returns is exactly one handle for each workspace created and
\* not cleaned up, and nothing else.
C18_ListsExactlyLive ==
    Returning("p1", "list") =>
        /\ HandlesOf("p1") = Live
        /\ Len(active["p1"].handles) = Cardinality(Live)

\* C18: list() has returned without the handle of a workspace that create
\* returned for a taskType with a '/' in it and that was not cleaned up
C18_Witness ==
    /\ Returning("p1", "list")
    /\ \E c \in Live : Len(c.path) > 1 /\ c \notin HandlesOf("p1")

\* C19: a cleanup whose target is already absent when its rm runs returns
\* without throwing and leaves the disk, so every other workspace, as it was.
C19_CleanupIdempotent ==
    [][(/\ active["p1"].pc = "rm"
        /\ active'["p1"].pc # "rm"
        /\ ~Exists(disk, active["p1"].handle.path)) =>
           active'["p1"].pc = "returned" /\ disk' = disk]_vars

\* C19: a cleanup of an absent workspace has returned while another
\* workspace is on disk
C19_Witness ==
    /\ Returning("p1", "cleanup")
    /\ active["p1"].removed = 0
    /\ active["p1"].handle.path \in cleaned
    /\ \E c \in Range(created) :
          c.path # active["p1"].handle.path /\ WellFormed(disk, c.path)

\* the directories right under the root that hold no metadata record
Orphans(d) ==
    {q \in d.dirs : Len(q) = 1 /\ ~Exists(d, Join(q, <<META_FILE>>))}

\* C20: no step of a list() or pruneStale call removes a directory under
\* the root that has no metadata record, no such directory is among the
\* handles of the call, and pruneStale counts handles only.
C20_OrphansUntouched ==
    [][active'["p1"].op \in {"list", "pruneStale"} =>
          /\ Orphans(disk) \subseteq Orphans(disk')
          /\ \A h \in Range(active'["p1"].handles) : h.path \notin Orphans(disk)
          /\ active'["p1"].pruned <= Len(active'["p1"].handles)]_vars

\* C20: pruneStale has returned after removing a workspace, and the
\* directory without metadata is still there
C20_Witness ==
    /\ Returning("p1", "pruneStale")
    /\ active["p1"].removed > 0
    /\ Foreign \in Orphans(disk)

\* C21: while another process creates and removes workspaces step by step,
\* list() never ends by throwing, and every handle it has built for a
\* workspace is the handle create returned for it: its own id and sections.
C21_ListToleratesRaces ==
    /\ active["p2"].pc # "threw"
    /\ \A h \in HandlesOf("p2") :
          \E c \in Range(created) :
              h.path = c.path /\ h.id = c.id /\ h.dirs = c.dirs

\* C21: list() has returned, having skipped a workspace whose removal was
\* under way during the scan and is not yet over
C21_Witness ==
    /\ Returning("p2", "list")
    /\ active["p1"].op = "cleanup" /\ active["p1"].pc = "rm"
    /\ active["p1"].removed = 1
    /\ active["p1"].handle \notin HandlesOf("p2")

\* the names of the methods of a handle that take a section
HandleMethods == Methods \cup {"writeJson"}

\* the message of the error of dir(section) with the names in some order
Orderings(names) ==
    {JoinNames([i \in 1..Len(names) |-> names[f[i]]]) :
       f \in Permutations(1..Len(names))}

UnknownSection(c, listing) ==
    /\ c.error.isError
    /\ c.error.message =
         "Unknown section \"" \o c.section \o "\". Available: " \o listing

\* a call of a handle method that names a section the handle does not record
Ungated(c) ==
    /\ c.op \in HandleMethods
    /\ c.handle.dirs.def
    /\ c.section \notin Range(c.handle.dirs.v)

\* C22: every step that leaves a process in a call of a handle method whose
\* section is not among the recorded dirs of the handle is the call itself,
\* it leaves the call thrown with an 'Unknown section' error that names the
\* section and lists the recorded names, and it leaves the disk as it was: no
\* step of the method that reaches the file system is ever taken.
C22_UnknownSectionBeforeAccess ==
    [][\A p \in Procs :
         (active'[p] # active[p] /\ Ungated(active'[p]))
         => /\ active'[p].pc = "threw"
            /\ \E listing \in Orderings(active'[p].handle.dirs.v) :
                  UnknownSection(active'[p], listing)
            /\ disk' = disk]_vars

C22_Witness ==
    /\ Ungated(active["p1"])
    /\ active["p1"].op = "copyDir"
    /\ active["p1"].section = "archive"
    /\ active["p1"].pc = "threw"
    /\ active["p1"].handle \in Range(created)
    /\ Exists(disk, active["p1"].handle.path)

\* C23: the message of every 'Unknown section' failure lists the four
\* defaults input, output, resources, scratch in that order and then the
\* extras the workspace was created with, in the order given at create, for
\* a handle create returned and for a handle list() rebuilt.
C23_AvailableInCreationOrder ==
    \A p \in Procs :
      (Ungated(active[p]) /\ active[p].pc = "threw")
      => \E a \in AdditionalDirs :
           /\ Range(active[p].handle.dirs.v) =
                {"input", "output", "resources", "scratch"} \cup Range(a)
           /\ UnknownSection(active[p],
                 JoinNames(<<"input", "output", "resources", "scratch">> \o a))

C23_Witness ==
    /\ Ungated(active["p1"]) /\ active["p1"].pc = "threw"
    /\ active["p1"].listed
    /\ active["p1"].section = "archive"
    /\ active["p1"].error.message =
         "Unknown section \"archive\". Available: "
           \o "input, output, resources, scratch, logs"

\* a call of a handle method whose section the handle records
Gated(c) ==
    /\ c.op \in HandleMethods
    /\ c.handle.dirs.def
    /\ c.section \in Range(c.handle.dirs.v)

\* C24: the path a handle method reads or writes, for a section among the
\* recorded dirs and any relative filePath, lies inside the directory of that
\* section.
C24_InsideSection ==
    \A p \in Procs :
      Gated(active[p])
      => Within(active[p].fullPath,
                Join(active[p].handle.path, <<active[p].section>>))

\* a writer called with section "output" has replaced the metadata record
C24_Witness ==
    /\ Gated(active["p1"])
    /\ active["p1"].op = "writeJson" /\ active["p1"].pc = "returned"
    /\ active["p1"].section = "output"
    /\ active["p1"].fullPath = Join(active["p1"].handle.path, <<META_FILE>>)
    /\ disk.files[active["p1"].fullPath] = EmptyObjectText

NoRepeats(names) ==
    \A i, j \in 1..Len(names) : names[i] = names[j] => i = j

\* C25: the section list of every handle create returned starts with input,
\* output, resources, scratch, names no section twice, and is the list in
\* the dirs field of the metadata create wrote.
C25_SectionsAreAnOrderedSet ==
    \A h \in Range(created) :
      /\ SubSeq(h.dirs.v, 1, 4) = <<"input", "output", "resources", "scratch">>
      /\ NoRepeats(h.dirs.v)
      /\ Join(h.path, <<META_FILE>>) \in DOMAIN disk.files
         => disk.files[Join(h.path, <<META_FILE>>)].dirs = h.dirs.v

\* create returned a handle that names the section input twice, and the
\* metadata on disk holds the same list
C25_Witness ==
    \E h \in Range(created) :
      /\ h.dirs.v = <<"input", "output", "resources", "scratch", "input">>
      /\ Join(h.path, <<META_FILE>>) \in DOMAIN disk.files
      /\ disk.files[Join(h.path, <<META_FILE>>)].dirs = h.dirs.v

\* the text of the file a settled reader call was given, and the call
ReadText == fs[spec.path].raw
Settled(reader) == pc = "settled" /\ spec.reader = reader

\* the error fs.readFile rejects with for a missing file (code ENOENT)
NotFound(err) ==
    /\ err.isError
    /\ err.message = "ENOENT: no such file or directory, open '"
                       \o OutputDir \o "/" \o spec.path \o "'"

\* the JSON texts and the value each holds
JsonValueOf(text) ==
    IF NonBlank(text) = <<"1">> THEN NumberValue(1) ELSE NumberValue(2)
IsJson(text) == NonBlank(text) \in {<<"1">>, <<"2">>}

\* content that is not of the format the reader decodes
Malformed ==
    /\ fs[spec.path].kind = "file"
    /\ CASE spec.reader = "readJson" -> ~IsJson(ReadText)
         [] spec.reader = "readJsonl" ->
               \E k \in 1..Len(ReadText) : ReadText[k] \in {Garbage, Fence}
         [] spec.reader = "readMarkdown" ->
               ReadText \in FencedTexts /\ ReadText[2] = Garbage
         [] OTHER -> FALSE

\* the values the schema of the call is handed, for well-formed content
Decoded ==
    CASE spec.reader = "readJson" -> {JsonValueOf(ReadText)}
      [] spec.reader = "readJsonl" ->
            {JsonValueOf(<<ReadText[k]>>) :
               k \in {j \in 1..Len(ReadText) : ReadText[j] # Blank}}
      [] spec.reader = "readMarkdown" ->
            IF ReadText \in FencedTexts THEN {StringValue(<<ReadText[2]>>)}
            ELSE {ObjectValue({})}
      [] OTHER -> {}

\* what the schema throws for the values it rejects
Rejections ==
    IF spec.schema = Undefined \/ fs[spec.path].kind # "file" \/ Malformed
    THEN {}
    ELSE {SchemaParse(spec.schema, v).err :
            v \in {w \in Decoded : ~SchemaParse(spec.schema, w).ok}}

\* the thrown value carries the text the schema threw
Preserves(err, thrown) ==
    \/ err = thrown
    \/ /\ spec.reader = "readJsonl" /\ err.isError
       /\ \E n \in 1..(MaxLines + 1) :
             err.message = "JSONL validation failed at line " \o ToString(n)
                            \o ": " \o ErrorText(thrown)

\* C26: a settled call of readJson, readJsonl, readMarkdown or readRaw has
\* thrown, not returned, when the file is missing, when its content is
\* malformed and when the schema rejects; for a missing file it threw the
\* ENOENT error of fs.readFile, for the other two an error that is not it,
\* and for a rejection one that carries what the schema threw.
C26_ReadersRaise ==
    pc = "settled"
    => /\ fs[spec.path].kind = "absent"
          => ~content.ok /\ NotFound(content.err)
       /\ Malformed => ~content.ok /\ ~NotFound(content.err)
       /\ Rejections # {}
          => /\ ~content.ok /\ ~NotFound(content.err)
             /\ \E thrown \in Rejections : Preserves(content.err, thrown)

\* readJsonl has thrown for an item its schema rejected
C26_Witness ==
    /\ Settled("readJsonl") /\ Rejections # {} /\ Len(ReadText) > 1
    /\ ~content.ok
    /\ content.err.message = "JSONL validation failed at line 2: must not be 2"

\* the lines of the file read, by 1-based number, that the schema rejects
RejectedLines ==
    {k \in 1..Len(ReadText) :
       /\ IsJson(<<ReadText[k]>>)
       /\ ~SchemaParse(spec.schema, JsonValueOf(<<ReadText[k]>>)).ok}

FirstRejectedLine == CHOOSE k \in RejectedLines : \A j \in RejectedLines : k <= j

\* C27: when readJsonl with a schema has thrown for a rejected item, the
\* message is 'JSONL validation failed at line N: <schema message>' with N
\* the 1-based number, in the file, of the first line the schema rejects.
C27_LineNumberOfFile ==
    (/\ Settled("readJsonl") /\ spec.schema # Undefined
     /\ fs[spec.path].kind = "file" /\ ~Malformed
     /\ RejectedLines # {})
    => /\ ~content.ok
       /\ content.err.message =
            "JSONL validation failed at line " \o ToString(FirstRejectedLine)
            \o ": " \o ErrorText(SchemaParse(spec.schema,
                          JsonValueOf(<<ReadText[FirstRejectedLine]>>)).err)

\* the rejected item is on line 2 of the file, after a blank line, and the
\* message names line 1
C27_Witness ==
    /\ Settled("readJsonl") /\ spec.schema = "notTwo"
    /\ fs[spec.path].kind = "file" /\ ReadText = <<Blank, "2">>
    /\ ~content.ok
    /\ content.err.message = "JSONL validation failed at line 1: must not be 2"

\* C28: once cleanup of a workspace has completed its directory is absent,
\* whatever calls follow, and no list() that returns afterwards holds a
\* handle of it.
C28_CleanedStaysAbsent ==
    /\ \A q \in cleaned : ~Exists(disk, q)
    /\ Returning("p1", "list")
       => \A h \in HandlesOf("p1") : h.path \notin cleaned

\* a list() called after the cleanup has returned a handle of the cleaned
\* workspace
C28_Witness ==
    /\ Returning("p1", "list")
    /\ \E h \in HandlesOf("p1") : h.path \in cleaned /\ Exists(disk, h.path)

\* the entry validateOutput pushes when the read of a file finds it gone
ReadFoundAbsent(e) ==
    e.message = "Failed to read file: ENOENT: no such file or directory, open '"
                 \o OutputDir \o "/" \o e.path \o "'"

\* C29: validateOutput never reports a file that is not there as a failed
\* read, also when the file is removed after the existence check: the
\* entries of a finished file spec whose file is absent are 'Required file
\* missing' for a required file and none for an optional one.
C29_AbsentOnlyByAccess ==
    (pc \in {"loop", "returned"} /\ index = 1 /\ fs[fileSpec.path] = Absent)
    => /\ \A k \in 1..Len(errors) : ~ReadFoundAbsent(errors[k])
       /\ errors = MissingErrors(fileSpec)

\* an optional file was removed after its existence check passed and the
\* call has returned invalid with a failed read
C29_Witness ==
    /\ pc = "returned" /\ index = 1
    /\ ~fileSpec.required
    /\ readCalls = <<1>> /\ fs[fileSpec.path] = Absent
    /\ ~result.valid
    /\ Len(errors) = 1 /\ ReadFoundAbsent(errors[1])

\* the directories under the root whose metadata record list() accepts
Accepted(d) ==
    {q \in d.dirs :
       /\ Len(q) = 1
       /\ LET read == ReadFile(d, Join(q, <<META_FILE>>)) IN
          read.ok /\ MetaFields(read.value).ok}

CreatedPaths == {created[k].path : k \in 1..Len(created)}

\* a step in which a create throws
CreateThrows(p) ==
    /\ active[p].op = "create" /\ active[p].pc # "threw"
    /\ active'[p].op = "create" /\ active'[p].pc = "threw"

====
